---- MODULE Spec2Model ----
(***************************************************************************)
(* A model of jax_sysid/utils.py: standard_scale, unscale, compute_scores  *)
(* and unscale_model.  Every function is modelled line by line as a small  *)
(* state machine over its local variables; the arithmetic is exact.        *)
(***************************************************************************)
EXTENDS Integers, Sequences, FiniteSets, TLC

(***************************************************************************)
(* Numbers.  A value is (n/d) * 10^e * sqrt(r) in a unique normal form: r  *)
(* squarefree, n/d in lowest terms, d > 0 coprime to 10, n not a multiple  *)
(* of 10.  d = 0 encodes the IEEE non-finite values: n = 0 is NaN, n = 1   *)
(* is +inf and n = -1 is -inf.  The decimal exponent keeps 1e-6 and its    *)
(* square within the integers TLC has; the radical keeps np.std,           *)
(* np.sqrt and np.linalg.norm exact.                                       *)
(***************************************************************************)
Abs(k) == IF k < 0 THEN -k ELSE k

RECURSIVE Gcd(_, _)
Gcd(a, b) == IF b = 0 THEN Abs(a) ELSE Gcd(Abs(b), Abs(a) % Abs(b))

RECURSIVE Pow10(_)
Pow10(k) == IF k = 0 THEN 1 ELSE 10 * Pow10(k - 1)

NaN == [n |-> 0, d |-> 0, e |-> 0, r |-> 1]
Inf(s) == [n |-> s, d |-> 0, e |-> 0, r |-> 1]
Zero == [n |-> 0, d |-> 1, e |-> 0, r |-> 1]

RECURSIVE NormDec(_, _, _, _)
NormDec(n, d, e, r) ==
    IF n % 10 = 0 THEN NormDec(n \div 10, d, e + 1, r)
    ELSE IF d % 10 = 0 THEN NormDec(n, d \div 10, e - 1, r)
    ELSE IF d % 2 = 0 THEN NormDec(n * 5, d \div 2, e - 1, r)
    ELSE IF d % 5 = 0 THEN NormDec(n * 2, d \div 5, e - 1, r)
    ELSE [n |-> n, d |-> d, e |-> e, r |-> r]

Norm(n, d, e, r) ==
    IF n = 0 THEN Zero
    ELSE LET g == Gcd(n, d)
             s == IF d < 0 THEN -1 ELSE 1
         IN  NormDec(s * (n \div g), s * (d \div g), e, r)

Num(k) == Norm(k, 1, 0, 1)
Rat(n, d) == Norm(n, d, 0, 1)
Dec(n, e) == Norm(n, 1, e, 1)
One == Num(1)
Hundred == Num(100)

IsNaN(a) == a.d = 0 /\ a.n = 0
IsInf(a) == a.d = 0 /\ a.n # 0
IsFinite(a) == a.d # 0
Sign(a) == IF a.n > 0 THEN 1 ELSE IF a.n < 0 THEN -1 ELSE 0
Neg(a) == [a EXCEPT !.n = -a.n]

\* Two finite values add when they carry the same radical (or one is 0).
AddFin(a, b) ==
    IF a.n = 0 THEN b
    ELSE IF b.n = 0 THEN a
    ELSE LET r == CHOOSE x \in {a.r} : x = b.r
             m == IF a.e < b.e THEN a.e ELSE b.e
         IN  Norm(a.n * Pow10(a.e - m) * b.d + b.n * Pow10(b.e - m) * a.d,
                  a.d * b.d, m, r)

Add(a, b) ==
    IF IsNaN(a) \/ IsNaN(b) THEN NaN
    ELSE IF IsInf(a) /\ IsInf(b) THEN (IF a.n = b.n THEN a ELSE NaN)
    ELSE IF IsInf(a) THEN a
    ELSE IF IsInf(b) THEN b
    ELSE AddFin(a, b)

Sub(a, b) == Add(a, Neg(b))

MulFin(a, b) ==
    LET g == Gcd(a.r, b.r)
    IN  Norm(a.n * b.n * g, a.d * b.d, a.e + b.e, (a.r \div g) * (b.r \div g))

Mul(a, b) ==
    IF IsNaN(a) \/ IsNaN(b) THEN NaN
    ELSE IF IsInf(a) \/ IsInf(b)
         THEN (IF Sign(a) * Sign(b) = 0 THEN NaN ELSE Inf(Sign(a) * Sign(b)))
    ELSE MulFin(a, b)

\* 1/(q*sqrt(r)) = sqrt(r)/(q*r)
InvFin(a) == Norm(a.d, a.n * a.r, -a.e, a.r)

\* IEEE division: x/0 is +-inf, 0/0 is NaN, and no error is raised.
Div(a, b) ==
    IF IsNaN(a) \/ IsNaN(b) THEN NaN
    ELSE IF IsInf(a)
         THEN (IF IsInf(b) THEN NaN ELSE Inf(IF Sign(b) < 0 THEN -a.n ELSE a.n))
    ELSE IF IsInf(b) THEN Zero
    ELSE IF b.n = 0 THEN (IF a.n = 0 THEN NaN ELSE Inf(Sign(a)))
    ELSE MulFin(a, InvFin(b))

RECURSIVE SquarePart(_, _)
SquarePart(N, k) ==
    IF k * k > N THEN 1
    ELSE IF N % (k * k) = 0 THEN k * SquarePart(N \div (k * k), k)
    ELSE SquarePart(N, k + 1)

Sqrt(a) ==
    IF IsNaN(a) \/ Sign(a) < 0 THEN NaN
    ELSE IF IsInf(a) \/ a.n = 0 THEN a
    ELSE LET odd == a.e % 2 # 0
             N == a.n * a.d * a.r * (IF odd THEN 10 ELSE 1)
             s == SquarePart(N, 2)
         IN  Norm(s, a.d * a.r, (IF odd THEN a.e - 1 ELSE a.e) \div 2,
                  N \div (s * s))

\* a > b for finite a, b >= 0: the squares, which are rational, are compared.
\* A gap of decimal exponents that no numerator of the model bridges decides
\* the comparison without forming 10^gap.
GtRat(a, b) ==
    IF a.n = 0 THEN FALSE
    ELSE IF b.n = 0 THEN TRUE
    ELSE LET gap == a.e - b.e
         IN  IF gap >= 0
             THEN IF b.n * a.d < Pow10(IF gap > 9 THEN 9 ELSE gap) THEN TRUE
                  ELSE a.n * b.d * Pow10(gap) > b.n * a.d
             ELSE IF a.n * b.d < Pow10(IF -gap > 9 THEN 9 ELSE -gap) THEN FALSE
                  ELSE a.n * b.d > b.n * a.d * Pow10(-gap)

Gt(a, b) ==
    IF ~IsFinite(a) \/ ~IsFinite(b)
    THEN ~IsNaN(a) /\ ~IsNaN(b) /\ a # b /\ (a = Inf(1) \/ b = Inf(-1))
    ELSE GtRat(MulFin(a, a), MulFin(b, b))

RECURSIVE SumSeq(_)
SumSeq(s) == IF s = <<>> THEN Zero ELSE Add(Head(s), SumSeq(Tail(s)))

(***************************************************************************)
(* Matrices are sequences of rows; vectors are sequences.                  *)
(***************************************************************************)
NRowsOf(M) == Len(M)
NColsOf(M) == Len(M[1])
Column(M, j) == [k \in 1..Len(M) |-> M[k][j]]

\* np.mean(X, 0): the mean of each column
MeanAxis0(M) ==
    [j \in 1..NColsOf(M) |-> Div(SumSeq(Column(M, j)), Num(NRowsOf(M)))]

\* np.std(X, 0): the population standard deviation of each column
StdAxis0(M) ==
    [j \in 1..NColsOf(M) |->
        LET c == Column(M, j)
            m == Div(SumSeq(c), Num(Len(c)))
            sq == [k \in 1..Len(c) |-> Mul(Sub(c[k], m), Sub(c[k], m))]
        IN  Sqrt(Div(SumSeq(sq), Num(Len(c))))]

(***************************************************************************)
(* standard_scale and unscale                                              *)
(***************************************************************************)
\* samples per matrix, largest integer of a sample, columns per matrix
NRows == 2
MaxK == 1
ColCounts == {1, 2}
\* the units the integer samples of a column are expressed in
Quanta == {One, Dec(1, -6), Dec(2, -6), Dec(4, -6)}
\* 1.e-6 of standard_scale
StdTol == Dec(1, -6)

ScaleInputs ==
    UNION {
        {[k \in 1..NRows |-> [j \in 1..nc |-> Mul(Num(K[k][j]), q[j])]] :
            K \in [1..NRows -> [1..nc -> 0..MaxK]], q \in [1..nc -> Quanta]} :
        nc \in ColCounts}

VARIABLES
    pcS,      \* position in standard_scale, then in the caller
    X,        \* standard_scale's argument
    xmean,    \* standard_scale's xmean
    xstd,     \* standard_scale's xstd
    xgain,    \* standard_scale's xgain
    iS,       \* standard_scale's loop variable i (1-based)
    Xs,       \* the scaled matrix standard_scale returns
    Xu        \* what unscale returns for (Xs, xmean, xgain)

VARIABLES
    pc,           \* position in compute_scores
    Y_train,      \* compute_scores' arguments
    Yhat_train,
    Y_test,
    Yhat_test,
    fit,
    ny,           \* compute_scores' locals
    score_train,
    score_test,
    msg,
    i,            \* the loop variable (1-based)
    err,          \* the exception compute_scores raised, or "none"
    shapeRead,    \* the argument arrays whose shape has been read so far
    dataRead,     \* the argument arrays whose elements have been read so far
    calls,        \* the number of calls the caller has made
    prev          \* the outcome of the caller's earlier call

VARIABLES
    pcM,      \* position in unscale_model, then in the caller's simulation
    heap,     \* the arrays that exist, by object identity
    heap0,    \* the arrays as they were when unscale_model was called
    loc,      \* unscale_model's names A, B, C, D, ymean, ygain, umean, ugain
    ret,      \* the tuple unscale_model returned
    step,     \* the simulation step k
    uIn,      \* the input u(k) of the last step
    xUn,      \* x(k) of the returned model, fed unscaled inputs
    xSc,      \* x(k) of the scaled model inside the scaling transforms
    yUn,      \* y(k) of the returned model at the last step
    ySc       \* ys(k)/ygain + ymean of the scaled model at the last step

scaleVars == <<pcS, X, xmean, xstd, xgain, iS, Xs, Xu>>
argVars == <<Y_train, Yhat_train, Y_test, Yhat_test, fit>>
scoreVars == <<pc, argVars, ny, score_train, score_test, msg, i, err,
               shapeRead, dataRead, calls, prev>>
modelVars == <<pcM, heap, heap0, loc, ret, step, uIn, xUn, xSc, yUn, ySc>>
vars == <<scaleVars, scoreVars, modelVars>>

\* the part of the state a specification of another function leaves alone
ScoresIdle ==
    /\ pc = "idle"
    /\ Y_train = <<>> /\ Yhat_train = <<>> /\ Y_test = <<>> /\ Yhat_test = <<>>
    /\ fit = <<>>
    /\ ny = 0 /\ score_train = <<>> /\ score_test = <<>> /\ msg = <<>>
    /\ i = 0 /\ err = "none" /\ shapeRead = {} /\ dataRead = {}
    /\ calls = 0 /\ prev = <<>>

ScaleIdle ==
    /\ pcS = "idle"
    /\ X = <<>> /\ xmean = <<>> /\ xstd = <<>> /\ xgain = <<>>
    /\ iS = 0 /\ Xs = <<>> /\ Xu = <<>>

ModelIdle ==
    /\ pcM = "idle"
    /\ heap = <<>> /\ heap0 = <<>> /\ loc = <<>> /\ ret = <<>>
    /\ step = 0 /\ uIn = <<>> /\ xUn = <<>> /\ xSc = <<>>
    /\ yUn = <<>> /\ ySc = <<>>

InitScale ==
    /\ pcS = "call"
    /\ X \in ScaleInputs
    /\ xmean = <<>>
    /\ xstd = <<>>
    /\ xgain = <<>>
    /\ iS = 0
    /\ Xs = <<>>
    /\ Xu = <<>>
    /\ ScoresIdle
    /\ ModelIdle

\* xstd[i] > 1.e-6
AboveTolMutGe(s) == ~Gt(StdTol, s)
AboveTol(s) == Gt(s, StdTol)

\* lines 58-61: xmean, xstd, nX, xgain = ones
ScaleStats ==
    /\ pcS = "call"
    /\ xmean' = MeanAxis0(X)
    /\ xstd' = StdAxis0(X)
    /\ xgain' = [j \in 1..NColsOf(X) |-> One]
    /\ iS' = 1
    /\ pcS' = "loop"
    /\ UNCHANGED <<X, Xs, Xu, scoreVars, modelVars>>

\* lines 62-64: one iteration of the loop over the columns
ScaleGain ==
    /\ pcS = "loop"
    /\ iS <= Len(xmean)
    /\ xgain' = IF AboveTol(xstd[iS])
                THEN [xgain EXCEPT ![iS] = Div(One, xstd[iS])]
                ELSE xgain
    /\ iS' = iS + 1
    /\ UNCHANGED <<pcS, X, xmean, xstd, Xs, Xu, scoreVars, modelVars>>

\* (X - xmean) * xgain, broadcast along the rows
ScaledMatrix(M, mean, gain) ==
    [k \in 1..Len(M) |-> [j \in 1..Len(M[k]) |->
        Mul(Sub(M[k][j], mean[j]), gain[j])]]

\* line 65: return (X - xmean) * xgain, xmean, xgain
ScaleReturn ==
    /\ pcS = "loop"
    /\ iS > Len(xmean)
    /\ Xs' = ScaledMatrix(X, xmean, xgain)
    /\ pcS' = "scaled"
    /\ UNCHANGED <<X, xmean, xstd, xgain, iS, Xu, scoreVars, modelVars>>

\* the offset subtracted instead of added
UnscaleMutSubOffset(S, offset, gain) ==
    [k \in 1..Len(S) |-> [j \in 1..Len(S[k]) |->
        Sub(Div(S[k][j], gain[j]), offset[j])]]
\* line 86: Xs/gain+offset
unscale(S, offset, gain) ==
    [k \in 1..Len(S) |-> [j \in 1..Len(S[k]) |->
        Add(Div(S[k][j], gain[j]), offset[j])]]

\* the caller hands standard_scale's three results to unscale
Unscale ==
    /\ pcS = "scaled"
    /\ Xu' = unscale(Xs, xmean, xgain)
    /\ pcS' = "unscaled"
    /\ UNCHANGED <<X, xmean, xstd, xgain, iS, Xs, scoreVars, modelVars>>

NextScale == ScaleStats \/ ScaleGain \/ ScaleReturn \/ Unscale

SpecScale == InitScale /\ [][NextScale]_vars

(***************************************************************************)
(* Properties of standard_scale and unscale                                *)
(***************************************************************************)
ScaleDone == pcS \in {"scaled", "unscaled"}

\* the population standard deviation of column j of X, from the moments:
\* sqrt(E[x^2] - E[x]^2)
PopStd(j) ==
    LET c == Column(X, j)
        n == Num(Len(c))
        m1 == Div(SumSeq(c), n)
        m2 == Div(SumSeq([k \in 1..Len(c) |-> Mul(c[k], c[k])]), n)
    IN  Sqrt(Sub(m2, Mul(m1, m1)))

\* the column hits the degenerate-gain guard
Degenerate(j) == ~Gt(PopStd(j), StdTol)

\* C3: with (Xs, mean, gain) = standard_scale(X), unscale(Xs, mean, gain)
\* equals X elementwise, degenerate columns included.
C3_RoundTrip == pcS = "unscaled" => Xu = X

\* a round trip over a column scaled by 1/std and a column, not constant,
\* that the guard left at gain 1
C3_Witness ==
    /\ pcS = "unscaled"
    /\ Xu = X
    /\ \E j \in 1..Len(xgain) : xgain[j] # One /\ Xs[1][j] # X[1][j]
    /\ \E j \in 1..Len(xgain) : Degenerate(j) /\ PopStd(j) # Zero

UpperAlpha ==
    <<"A", "B", "C", "D", "E", "F", "G", "H", "I", "J", "K", "L", "M",
      "N", "O", "P", "Q", "R", "S", "T", "U", "V", "W", "X", "Y", "Z">>
LowerAlpha ==
    <<"a", "b", "c", "d", "e", "f", "g", "h", "i", "j", "k", "l", "m",
      "n", "o", "p", "q", "r", "s", "t", "u", "v", "w", "x", "y", "z">>
ToLower(c) ==
    IF \E k \in 1..26 : UpperAlpha[k] = c
    THEN LowerAlpha[CHOOSE k \in 1..26 : UpperAlpha[k] = c] ELSE c
ToUpper(c) ==
    IF \E k \in 1..26 : LowerAlpha[k] = c
    THEN UpperAlpha[CHOOSE k \in 1..26 : LowerAlpha[k] = c] ELSE c
\* str.lower()
Lower(str) == [k \in 1..Len(str) |-> ToLower(str[k])]
\* str.capitalize()
Capitalize(str) ==
    [k \in 1..Len(str) |-> IF k = 1 THEN ToUpper(str[k]) ELSE ToLower(str[k])]
\* str[0:3]
Slice03(str) == SubSeq(str, 1, IF Len(str) < 3 THEN Len(str) ELSE 3)

\* ndarrays: nd is the number of dimensions; v holds the entries (one entry
\* for nd = 0, a sequence for nd = 1, a sequence of rows for nd = 2)
Scalar(x) == [nd |-> 0, v |-> <<x>>]
Vec(seq) == [nd |-> 1, v |-> seq]
Mat(rows) == [nd |-> 2, v |-> rows]
MatOfCols(cols) ==
    Mat([k \in 1..Len(cols[1]) |-> [j \in 1..Len(cols) |-> cols[j][k]]])
ShapeOf(A) ==
    IF A.nd = 2 THEN <<Len(A.v), Len(A.v[1])>>
    ELSE IF A.nd = 1 THEN <<Len(A.v)>> ELSE <<>>

\* np.atleast_2d(A).shape[1]: a 1-D array of length n becomes one row of n
AtLeast2dCols(A) ==
    IF A.nd = 2 THEN Len(A.v[1]) ELSE IF A.nd = 1 THEN Len(A.v) ELSE 1

\* A[:, j] is defined for a 2-D array with at least j columns; otherwise
\* numpy raises IndexError
HasCol(A, j) == A.nd = 2 /\ j <= Len(A.v[1])
Col(A, j) == Column(A.v, j)

RECURSIVE ConcatRows(_)
ConcatRows(rows) ==
    IF rows = <<>> THEN <<>> ELSE Head(rows) \o ConcatRows(Tail(rows))
\* every entry of the array, as the whole-array reductions see it
Flatten(A) == IF A.nd = 2 THEN ConcatRows(A.v) ELSE A.v

\* np.mean(y)
Mean(y) == Div(SumSeq(y), Num(Len(y)))
\* np.sum((y - m)**2)
SumSqDev(y, m) ==
    SumSeq([k \in 1..Len(y) |-> Mul(Sub(y[k], m), Sub(y[k], m))])
\* np.sum((yhat - y)**2)
SumSqErr(yhat, y) ==
    SumSeq([k \in 1..Len(y) |-> Mul(Sub(yhat[k], y[k]), Sub(yhat[k], y[k]))])

\* nY_train2 (lines 137 and 160)
TrainDenominator(ytr) == SumSqDev(ytr, Mean(ytr))
\* the R2 denominator of the test set taken about the training mean
TestDenominatorMutTrainMean(ytr, yte) ==
    IF fit = <<"R", "2">> THEN SumSqDev(yte, Mean(ytr))
    ELSE SumSqDev(yte, Mean(yte))
\* nY_test2 (lines 138 and 161): the test set's own mean
TestDenominator(ytr, yte) == SumSqDev(yte, Mean(yte))

\* 100. * (1. - np.sum((yhat - y) ** 2) / nY2)
R2ScoreMutNoComplement(yhat, y, nY2) ==
    Mul(Hundred, Div(SumSqErr(yhat, y), nY2))
R2Score(yhat, y, nY2) ==
    Mul(Hundred, Sub(One, Div(SumSqErr(yhat, y), nY2)))
\* 100. * (1. - np.linalg.norm(yhat - y) / np.sqrt(nY2))
BFRScore(yhat, y, nY2) ==
    Mul(Hundred, Sub(One, Div(Sqrt(SumSqErr(yhat, y)), Sqrt(nY2))))
\* np.mean(yhat == y)*100
AccScore(yhat, y) ==
    Mul(Div(Num(Cardinality({k \in 1..Len(y) : yhat[k] = y[k]})),
            Num(Len(y))), Hundred)

\* the format {x: 5.4f}: four decimals, ties to even; nan and inf print as
\* themselves
Fmt4(x) ==
    IF ~IsFinite(x) THEN x
    ELSE LET sh == x.e + 4
             p == IF sh >= 0 THEN x.n * Pow10(sh) ELSE x.n
             q == IF sh >= 0 THEN x.d ELSE x.d * Pow10(-sh)
             f == p \div q
             rem == p - f * q
             k == IF 2 * rem > q THEN f + 1
                  ELSE IF 2 * rem < q THEN f
                  ELSE IF f % 2 = 0 THEN f ELSE f + 1
         IN  Dec(k, -4)

\* the three tests of lines 122-124
SelR2(f) == Lower(f) = <<"r", "2">>
SelBFR(f) == Lower(f) = <<"b", "f", "r">>
SelAccMutTwoChars(f) ==
    SubSeq(Lower(f), 1, IF Len(f) < 2 THEN Len(f) ELSE 2) = <<"a", "c">>
SelAcc(f) == Slice03(Lower(f)) = <<"a", "c", "c">>
isR2 == SelR2(fit)
isBFR == SelBFR(fit)
isAcc == SelAcc(fit)
unit == IF isAcc THEN "%" ELSE ""

\* the score of one column, or of a whole array, under the metric chosen
ScoreOf(yhat, y, nY2) ==
    IF isR2 THEN R2Score(yhat, y, nY2)
    ELSE IF isBFR THEN BFRScore(yhat, y, nY2)
    ELSE AccScore(yhat, y)

\* np.sum(score) / ny of line 175
AggregateMutSum(score) == SumSeq(score.v)
Aggregate(score) == Div(SumSeq(score.v), Num(ny))

\* one "... score: training = ..., test = ..." line of the message
MsgLine(chan, tr, te) ==
    [chan |-> chan, name |-> Capitalize(fit),
     train |-> Fmt4(tr), test |-> Fmt4(te), unit |-> unit]
EmptyMsg == [lines |-> <<>>, average |-> FALSE, final |-> <<>>]

\* The inputs.  A reference column is a ramp 0, 1, ... or a constant level;
\* a prediction column is the ramp, the ramp reversed or the constant level.
NSamples == 2
Levels == {1}
ChanCounts == {1, 2}
Ramp == [k \in 1..NSamples |-> Num(k - 1)]
Reversed == [k \in 1..NSamples |-> Num(NSamples - k)]
Level(c) == [k \in 1..NSamples |-> Num(c)]
RefCols == {Ramp} \cup {Level(c) : c \in Levels}
PredCols == {Ramp, Reversed} \cup {Level(c) : c \in Levels}

\* (Y, Yhat) of one data set, of matching shapes: 2-D with c columns, 1-D
\* with NSamples entries, 1-D with one entry
MatPairs(c) ==
    {<<MatOfCols(y), MatOfCols(yh)>> :
        y \in [1..c -> RefCols], yh \in [1..c -> PredCols]}
VecPairs ==
    {<<Vec(y), Vec(yh)>> : y \in RefCols, yh \in PredCols}
    \cup {<<Vec(SubSeq(y, 1, 1)), Vec(SubSeq(yh, 1, 1))>> :
            y \in RefCols, yh \in PredCols}
SignalPairs == VecPairs \cup UNION {MatPairs(c) : c \in ChanCounts}

\* perfect predictions of each shape, for the calls that probe the selector
ProbePairs ==
    {<<Vec(Ramp), Vec(Ramp)>>,
     <<MatOfCols(<<Ramp>>), MatOfCols(<<Ramp>>)>>,
     <<MatOfCols(<<Ramp, Level(1)>>), MatOfCols(<<Ramp, Level(1)>>)>>}

MetricNames ==
    {<<"R", "2">>, <<"B", "F", "R">>,
     <<"A", "c", "c", "u", "r", "a", "c", "y">>}
OtherNames ==
    {<<"r", "2">>, <<"b", "F", "r">>, <<"a", "c", "c">>,
     <<"A", "C", "C", "x">>, <<"b", "o", "g", "u", "s">>, <<"a", "c">>,
     <<"R">>, <<"r", "2", "x">>, <<>>}

Call(tr, te, f) ==
    [Y_train |-> tr[1], Yhat_train |-> tr[2],
     Y_test |-> te[1], Yhat_test |-> te[2], fit |-> f]

\* the end-to-end example: Y_train = Yhat_train = [[1],[2],[3]],
\* Y_test = Yhat_test = [[2],[2],[2]], fit = 'R2'
ExampleEndToEnd ==
    LET tr == MatOfCols(<<<<Num(1), Num(2), Num(3)>>>>)
        te == MatOfCols(<<<<Num(2), Num(2), Num(2)>>>>)
    IN  Call(<<tr, tr>>, <<te, te>>, <<"R", "2">>)

\* three outputs whose R2 scores are 90, 80 and 70 on both data sets
ExampleThreeOutputs ==
    LET y == <<Num(0), Num(0), Num(10), Num(10)>>
        Y == MatOfCols(<<y, y, y>>)
        Yh == MatOfCols(<<<<Num(3), Num(1), Num(10), Num(10)>>,
                          <<Num(4), Num(2), Num(10), Num(10)>>,
                          <<Num(5), Num(2), Num(11), Num(10)>>>>)
    IN  Call(<<Y, Yh>>, <<Y, Yh>>, <<"R", "2">>)

\* sqrt(sum((yhat - y)^2)) / sqrt(sum((y - mean)^2)) is rational or not finite
RatioExact(yhat, y) ==
    Div(Sqrt(SumSqErr(yhat, y)), Sqrt(SumSqDev(y, Mean(y)))).r = 1

\* every BFR score the call computes has an exact rational value
BfrExact(c) ==
    IF AtLeast2dCols(c.Y_train) > 1
    THEN \A j \in 1..AtLeast2dCols(c.Y_train) :
            /\ HasCol(c.Y_train, j) =>
                  RatioExact(Col(c.Yhat_train, j), Col(c.Y_train, j))
            /\ HasCol(c.Y_test, j) =>
                  RatioExact(Col(c.Yhat_test, j), Col(c.Y_test, j))
    ELSE /\ RatioExact(Flatten(c.Yhat_train), Flatten(c.Y_train))
         /\ RatioExact(Flatten(c.Yhat_test), Flatten(c.Y_test))

CallInputs ==
    {c \in {Call(tr, te, f) : tr \in SignalPairs, te \in SignalPairs,
                              f \in MetricNames} \cup
           {Call(tr, te, f) : tr \in ProbePairs, te \in ProbePairs,
                              f \in OtherNames} \cup
           {ExampleEndToEnd, ExampleThreeOutputs} :
        SelBFR(c.fit) => BfrExact(c)}

\* the locals of compute_scores before its first line has run
CsLocalsInit ==
    /\ ny = 0
    /\ score_train = Vec(<<>>)
    /\ score_test = Vec(<<>>)
    /\ msg = EmptyMsg
    /\ i = 0
    /\ err = "none"
    /\ shapeRead = {}
    /\ dataRead = {}

\* what an earlier call was given as training data and how it ended
NoOutcome ==
    [Y_train |-> Vec(<<>>), Yhat_train |-> Vec(<<>>), pc |-> "call",
     err |-> "none", score_test |-> Vec(<<>>)]

Init ==
    /\ pc = "call"
    /\ \E c \in CallInputs :
          /\ Y_train = c.Y_train /\ Yhat_train = c.Yhat_train
          /\ Y_test = c.Y_test /\ Yhat_test = c.Yhat_test
          /\ fit = c.fit
    /\ CsLocalsInit
    /\ calls = 1
    /\ prev = NoOutcome
    /\ ScaleIdle
    /\ ModelIdle

\* lines 118-121
CsEntry ==
    /\ pc = "call"
    /\ ny' = AtLeast2dCols(Y_train)
    /\ score_train' = Vec([k \in 1..AtLeast2dCols(Y_train) |-> Zero])
    /\ score_test' = Vec([k \in 1..AtLeast2dCols(Y_train) |-> Zero])
    /\ msg' = EmptyMsg
    /\ shapeRead' = shapeRead \cup {"Y_train"}
    /\ pc' = "check"
    /\ UNCHANGED <<argVars, i, err, dataRead, calls, prev, scaleVars, modelVars>>

\* lines 122-134: the selector is checked, then the branch is chosen
CsCheck ==
    /\ pc = "check"
    /\ IF ~(isR2 \/ isBFR \/ isAcc)
       THEN /\ pc' = "raised"
            /\ err' = "ValueError"
            /\ i' = i
       ELSE /\ pc' = IF ny > 1 THEN "loop" ELSE "single"
            /\ err' = err
            /\ i' = 1
    /\ UNCHANGED <<argVars, ny, score_train, score_test, msg, shapeRead,
                   dataRead, calls, prev, scaleVars, modelVars>>

\* lines 135-156: one iteration of the loop over the output channels.  An
\* index expression A[:, i] that numpy rejects ends the call with IndexError.
CsChannel ==
    /\ pc = "loop"
    /\ i <= ny
    /\ IF isR2 \/ isBFR
       THEN IF ~HasCol(Y_train, i)
            THEN /\ pc' = "raised" /\ err' = "IndexError"
                 /\ dataRead' = dataRead \cup {"Y_train"}
                 /\ UNCHANGED <<score_train, score_test, msg, i>>
            ELSE IF ~HasCol(Y_test, i)
            THEN /\ pc' = "raised" /\ err' = "IndexError"
                 /\ dataRead' = dataRead \cup {"Y_train", "Y_test"}
                 /\ UNCHANGED <<score_train, score_test, msg, i>>
            ELSE LET nY_train2 == TrainDenominator(Col(Y_train, i))
                     nY_test2 == TestDenominator(Col(Y_train, i), Col(Y_test, i))
                     tr == ScoreOf(Col(Yhat_train, i), Col(Y_train, i), nY_train2)
                     te == ScoreOf(Col(Yhat_test, i), Col(Y_test, i), nY_test2)
                 IN  /\ score_train' = [score_train EXCEPT !.v[i] = tr]
                     /\ score_test' = [score_test EXCEPT !.v[i] = te]
                     /\ msg' = [msg EXCEPT !.lines = Append(@, MsgLine(i, tr, te))]
                     /\ dataRead' = dataRead \cup
                            {"Y_train", "Yhat_train", "Y_test", "Yhat_test"}
                     /\ i' = i + 1
                     /\ UNCHANGED <<pc, err>>
       ELSE IF ~HasCol(Yhat_train, i)
            THEN /\ pc' = "raised" /\ err' = "IndexError"
                 /\ dataRead' = dataRead \cup {"Yhat_train"}
                 /\ UNCHANGED <<score_train, score_test, msg, i>>
            ELSE LET tr == AccScore(Col(Yhat_train, i), Col(Y_train, i))
                 IN  IF ~HasCol(Yhat_test, i)
                     THEN /\ pc' = "raised" /\ err' = "IndexError"
                          /\ score_train' = [score_train EXCEPT !.v[i] = tr]
                          /\ dataRead' = dataRead \cup
                                 {"Y_train", "Yhat_train", "Yhat_test"}
                          /\ UNCHANGED <<score_test, msg, i>>
                     ELSE LET te == AccScore(Col(Yhat_test, i), Col(Y_test, i))
                          IN  /\ score_train' = [score_train EXCEPT !.v[i] = tr]
                              /\ score_test' = [score_test EXCEPT !.v[i] = te]
                              /\ msg' = [msg EXCEPT
                                            !.lines = Append(@, MsgLine(i, tr, te))]
                              /\ dataRead' = dataRead \cup
                                     {"Y_train", "Yhat_train", "Y_test", "Yhat_test"}
                              /\ i' = i + 1
                              /\ UNCHANGED <<pc, err>>
    /\ UNCHANGED <<argVars, ny, shapeRead, calls, prev, scaleVars, modelVars>>

\* line 158: the loop is over
CsLoopEnd ==
    /\ pc = "loop"
    /\ i > ny
    /\ msg' = [msg EXCEPT !.average = TRUE]
    /\ pc' = "final"
    /\ UNCHANGED <<argVars, ny, score_train, score_test, i, err, shapeRead,
                   dataRead, calls, prev, scaleVars, modelVars>>

\* lines 160-174: a single output; the reductions run over whole arrays
CsSingle ==
    /\ pc = "single"
    /\ LET ytr == Flatten(Y_train)
           yte == Flatten(Y_test)
           nY_train2 == TrainDenominator(ytr)
           nY_test2 == TestDenominator(ytr, yte)
       IN  /\ score_train' = Scalar(ScoreOf(Flatten(Yhat_train), ytr, nY_train2))
           /\ score_test' = Scalar(ScoreOf(Flatten(Yhat_test), yte, nY_test2))
    /\ dataRead' = dataRead \cup {"Y_train", "Yhat_train", "Y_test", "Yhat_test"}
    /\ pc' = "final"
    /\ UNCHANGED <<argVars, ny, msg, i, err, shapeRead, calls, prev, scaleVars, modelVars>>

\* lines 175-176: the closing line of the message, and the return
CsReturn ==
    /\ pc = "final"
    /\ msg' = [msg EXCEPT !.final =
                  <<MsgLine(0, Aggregate(score_train), Aggregate(score_test))>>]
    /\ pc' = "done"
    /\ UNCHANGED <<argVars, ny, score_train, score_test, i, err, shapeRead,
                   dataRead, calls, prev, scaleVars, modelVars>>

NextScores == CsEntry \/ CsCheck \/ CsChannel \/ CsLoopEnd \/ CsSingle \/ CsReturn

Spec == Init /\ [][NextScores]_vars

\* Two calls in a row with the same test arrays and the same selector: the
\* second call gets other training arrays.
RetrainPairs ==
    {<<Vec(<<Num(0)>>), Vec(<<Num(1)>>)>>,
     <<Vec(Ramp), Vec(Ramp)>>,
     <<MatOfCols(<<Ramp>>), MatOfCols(<<Ramp>>)>>,
     <<MatOfCols(<<Level(1)>>), MatOfCols(<<Level(1)>>)>>,
     <<MatOfCols(<<Ramp, Level(1)>>), MatOfCols(<<Reversed, Level(1)>>)>>,
     <<MatOfCols(<<Level(1), Ramp>>), MatOfCols(<<Level(1), Ramp>>)>>}

TwoCallInputs ==
    {c \in {Call(tr, te, f) : tr \in RetrainPairs, te \in SignalPairs,
                              f \in MetricNames} :
        SelBFR(c.fit) => BfrExact(c)}

InitTwoCalls ==
    /\ pc = "call"
    /\ \E c \in TwoCallInputs :
          /\ Y_train = c.Y_train /\ Yhat_train = c.Yhat_train
          /\ Y_test = c.Y_test /\ Yhat_test = c.Yhat_test
          /\ fit = c.fit
    /\ CsLocalsInit
    /\ calls = 1
    /\ prev = NoOutcome
    /\ ScaleIdle
    /\ ModelIdle

\* the caller calls compute_scores again once the first call has ended
CallAgain ==
    /\ calls = 1
    /\ pc \in {"done", "raised"}
    /\ \E tr \in RetrainPairs :
          /\ SelBFR(fit) => BfrExact(Call(tr, <<Y_test, Yhat_test>>, fit))
          /\ Y_train' = tr[1]
          /\ Yhat_train' = tr[2]
    /\ prev' = [Y_train |-> Y_train, Yhat_train |-> Yhat_train, pc |-> pc,
                err |-> err, score_test |-> score_test]
    /\ calls' = 2
    /\ pc' = "call"
    /\ ny' = 0
    /\ score_train' = Vec(<<>>)
    /\ score_test' = Vec(<<>>)
    /\ msg' = EmptyMsg
    /\ i' = 0
    /\ err' = "none"
    /\ shapeRead' = {}
    /\ dataRead' = {}
    /\ UNCHANGED <<Y_test, Yhat_test, fit, scaleVars, modelVars>>

NextTwoCalls == NextScores \/ CallAgain

SpecTwoCalls == InitTwoCalls /\ [][NextTwoCalls]_vars

(***************************************************************************)
(* Properties of compute_scores                                            *)
(***************************************************************************)
\* the selector is R2, BFR or starts with acc, whatever the case of its
\* letters
Recognised(f) ==
    \/ \E name \in {<<"r", "2">>, <<"b", "f", "r">>} :
          /\ Len(f) = Len(name)
          /\ \A k \in 1..Len(name) : ToLower(f[k]) = name[k]
    \/ /\ Len(f) >= 3
       /\ ToLower(f[1]) = "a" /\ ToLower(f[2]) = "c" /\ ToLower(f[3]) = "c"

Returned == pc = "done"
Finished == pc \in {"done", "raised"}

\* C1 as stated: an unrecognised selector raises ValueError with the
\* selector check as the first step, before any read of the arrays.
C1_CheckedFirst ==
    (~Recognised(fit) /\ pc \in {"check", "raised"}) =>
        shapeRead = {} /\ dataRead = {}

\* C1, amended: an unrecognised selector raises ValueError before any element
\* of the arrays is read and before any score is computed; only Y_train's
\* shape is read and the zero score vectors and the empty message are set up
\* before the test; the call never gets past the test, so it returns
\* neither a score nor a message.
C1_RaisesBeforeData ==
    ~Recognised(fit) =>
        /\ pc \in {"call", "check", "raised"}
        /\ dataRead = {}
        /\ shapeRead \subseteq {"Y_train"}
        /\ pc = "raised" =>
              /\ err = "ValueError"
              /\ score_train = Vec([k \in 1..ny |-> Zero])
              /\ score_test = Vec([k \in 1..ny |-> Zero])
              /\ msg = EmptyMsg

\* 'bogus' on two-column arrays has raised ValueError
C1_Witness ==
    /\ fit = <<"b", "o", "g", "u", "s">>
    /\ Y_train.nd = 2 /\ ny = 2
    /\ pc = "raised" /\ err = "ValueError"

AllOneDim ==
    Y_train.nd = 1 /\ Yhat_train.nd = 1 /\ Y_test.nd = 1 /\ Yhat_test.nd = 1

\* C2: 1-D vectors of any length n >= 1 are single-output data: the output
\* count is 1, the single-output branch is taken with no column indexing,
\* and the scores are scalars.
C2_OneDimSingleOutput ==
    (AllOneDim /\ Recognised(fit) /\ pc \notin {"call", "check"}) =>
        /\ ny = 1
        /\ pc # "loop"
        /\ err = "none"
        /\ Returned => score_train.nd = 0 /\ score_test.nd = 0

\* the four arrays are matrices with ny columns each
WellShaped ==
    /\ Y_train.nd = 2 /\ Yhat_train.nd = 2 /\ Y_test.nd = 2 /\ Yhat_test.nd = 2
    /\ Len(Y_train.v[1]) = Len(Y_test.v[1])

Constant(y) == \A k \in 1..Len(y) : y[k] = y[1]
Perfect == Yhat_train = Y_train /\ Yhat_test = Y_test
Chans == 1..Len(Y_train.v[1])

\* C7 as stated: with R2 or BFR and Yhat == Y on both sets every channel's
\* score and the aggregate are 100, on both sets.
C7_AlwaysHundred ==
    (Returned /\ (isR2 \/ isBFR) /\ WellShaped /\ Perfect) =>
        /\ \A j \in Chans :
              score_train.v[j] = Hundred /\ score_test.v[j] = Hundred
        /\ msg.final[1].train = Hundred /\ msg.final[1].test = Hundred

\* C7, amended: with R2 or BFR and Yhat == Y on both sets, the score of a
\* channel is 100 on every set where the channel's reference is not
\* constant and NaN where it is constant; the aggregate of a set is 100 when
\* no channel's reference is constant on it.
C7_PerfectFit ==
    (Returned /\ (isR2 \/ isBFR) /\ WellShaped /\ Perfect) =>
        /\ \A j \in Chans :
              /\ score_train.v[j] =
                    IF Constant(Col(Y_train, j)) THEN NaN ELSE Hundred
              /\ score_test.v[j] =
                    IF Constant(Col(Y_test, j)) THEN NaN ELSE Hundred
        /\ (\A j \in Chans : ~Constant(Col(Y_train, j))) =>
              msg.final[1].train = Hundred
        /\ (\A j \in Chans : ~Constant(Col(Y_test, j))) =>
              msg.final[1].test = Hundred

\* a perfect two-channel BFR fit with no constant reference
C7_Witness ==
    /\ Returned /\ isBFR /\ WellShaped /\ Perfect /\ ny = 2
    /\ \A j \in Chans : ~Constant(Col(Y_train, j)) /\ ~Constant(Col(Y_test, j))
    /\ score_train.v = <<Hundred, Hundred>>
    /\ msg.final[1].test = Hundred

\* the score of one channel from the metric's definition:
\* 100 (1 - SSE/SST), resp. 100 (1 - sqrt(SSE/SST)), with
\* SST = sum(y^2) - (sum y)^2 / n
Expected(yhat, y) ==
    LET sse == SumSqErr(yhat, y)
        sst == Sub(SumSeq([k \in 1..Len(y) |-> Mul(y[k], y[k])]),
                   Div(Mul(SumSeq(y), SumSeq(y)), Num(Len(y))))
    IN  IF isR2 THEN Mul(Hundred, Sub(One, Div(sse, sst)))
        ELSE Mul(Hundred, Sub(One, Sqrt(Div(sse, sst))))

\* C8: with R2 or BFR, a reference that is constant in a channel of one data
\* set raises no error; that set's score for the channel is NaN or infinite
\* and the other set's score is what its own data give.  The end-to-end
\* example returns a training score of exactly 100 and a test score of NaN.
C8_ZeroVariance ==
    ((isR2 \/ isBFR) /\ WellShaped) =>
        /\ err = "none" /\ pc # "raised"
        /\ pc \in {"final", "done"} =>
              \A j \in Chans :
                 /\ Constant(Col(Y_test, j)) =>
                       /\ ~IsFinite(score_test.v[j])
                       /\ score_train.v[j] =
                             Expected(Col(Yhat_train, j), Col(Y_train, j))
                 /\ Constant(Col(Y_train, j)) =>
                       /\ ~IsFinite(score_train.v[j])
                       /\ score_test.v[j] =
                             Expected(Col(Yhat_test, j), Col(Y_test, j))
        /\ (Returned /\ Call(<<Y_train, Yhat_train>>, <<Y_test, Yhat_test>>, fit)
                            = ExampleEndToEnd) =>
              score_train = Scalar(Hundred) /\ score_test = Scalar(NaN)

\* the end-to-end example has returned 100 and NaN
C8_Witness ==
    /\ Returned
    /\ Call(<<Y_train, Yhat_train>>, <<Y_test, Yhat_test>>, fit) = ExampleEndToEnd
    /\ Constant(Col(Y_test, 1)) /\ ~Constant(Col(Y_train, 1))
    /\ score_train = Scalar(Hundred) /\ IsNaN(score_test.v[1])

\* the unweighted arithmetic mean of a sequence of scores
MeanOf(v) == Mul(SumSeq(v), Rat(1, Len(v)))

\* C9: the overall scores of the message's closing line are the unweighted
\* mean of the per-channel scores when ny > 1 (as printed, to four decimals)
\* and the single score when ny = 1; the returned scores are vectors of
\* length ny when ny > 1 and scalars when ny = 1.  Scores [90, 80, 70] are
\* reported as 80.
C9_Aggregation ==
    Returned =>
        /\ ny > 1 =>
              /\ score_train.nd = 1 /\ Len(score_train.v) = ny
              /\ score_test.nd = 1 /\ Len(score_test.v) = ny
              /\ msg.final[1].train = Fmt4(MeanOf(score_train.v))
              /\ msg.final[1].test = Fmt4(MeanOf(score_test.v))
        /\ ny = 1 =>
              /\ score_train.nd = 0 /\ score_test.nd = 0
              /\ msg.final[1].train = Fmt4(score_train.v[1])
              /\ msg.final[1].test = Fmt4(score_test.v[1])
        /\ score_train.v = <<Num(90), Num(80), Num(70)>> =>
              msg.final[1].train = Num(80)

\* three channels scoring 90, 80 and 70 are reported as 80
C9_Witness ==
    /\ Returned /\ ny = 3
    /\ score_train = Vec(<<Num(90), Num(80), Num(70)>>)
    /\ score_test = Vec(<<Num(90), Num(80), Num(70)>>)
    /\ msg.final[1].train = Num(80) /\ msg.final[1].test = Num(80)
    /\ Len(msg.lines) = 3 /\ msg.average

\* C10 as stated: two calls with a valid selector that differ only in the
\* training arrays return the same score_test.
C10_TrainIndependent ==
    (calls = 2 /\ Returned /\ prev.pc = "done" /\ Recognised(fit)) =>
        score_test = prev.score_test

\* C10, amended: two calls with a valid selector and the same test arrays
\* whose training arrays have the same shape end the same way: both raise
\* the same error or both return, and then with the same score_test.
C10_SameShapeSameTest ==
    (calls = 2 /\ Finished /\ Recognised(fit)
       /\ ShapeOf(Y_train) = ShapeOf(prev.Y_train)) =>
        /\ pc = prev.pc
        /\ err = prev.err
        /\ Returned => score_test = prev.score_test

\* two calls on two-column data whose training values differ have returned
\* the same test scores
C10_Witness ==
    /\ calls = 2 /\ Returned /\ isR2 /\ ny = 2
    /\ ShapeOf(Y_train) = ShapeOf(prev.Y_train)
    /\ Y_train # prev.Y_train
    /\ prev.pc = "done"
    /\ score_test = prev.score_test
    /\ \E j \in 1..2 : IsFinite(score_test.v[j])

(***************************************************************************)
(* unscale_model (lines 201-252)                                           *)
(***************************************************************************)
\* M.T
Transpose(M) == [j \in 1..Len(M[1]) |-> [r \in 1..Len(M) |-> M[r][j]]]
\* M*g: numpy broadcasts the vector g along the last axis
MulLastAxis(M, g) ==
    [r \in 1..Len(M) |-> [j \in 1..Len(M[r]) |-> Mul(M[r][j], g[j])]]
\* the division replaced by a multiplication
DivLastAxisMutMul(M, g) ==
    [r \in 1..Len(M) |-> [j \in 1..Len(M[r]) |-> Mul(M[r][j], g[j])]]
\* M/g
DivLastAxis(M, g) ==
    [r \in 1..Len(M) |-> [j \in 1..Len(M[r]) |-> Div(M[r][j], g[j])]]

\* the operation done in place on its left operand, as B *= ugain would
NewArrayMutInPlace(h, src, val) ==
    [heap |-> [h EXCEPT ![src] = val], ref |-> src]
\* a binary operation of numpy leaves its operands alone and returns a new
\* array, to which the assignment binds the name
NewArray(h, src, val) == [heap |-> Append(h, val), ref |-> Len(h) + 1]

\* the objects behind the eight parameters, in the order of the signature
CallerRefs ==
    [A |-> 1, B |-> 2, C |-> 3, D |-> 4,
     ymean |-> 5, ygain |-> 6, umean |-> 7, ugain |-> 8]

\* the sizes (nx, nu, ny) of the models, and what their entries are drawn from
MaxSteps == 2
Dims == {<<1, 1, 1>>, <<1, 2, 1>>, <<1, 1, 2>>}
UGains == {Num(1), Num(2)}
YGains == {Num(0), Num(1), Num(2)}
Offsets == {Num(0), Num(1)}
Signals == {Num(0), Num(1)}
Filled(rows, cols, c) == [r \in 1..rows |-> [j \in 1..cols |-> Num(c)]]
Counting(rows, cols) == [r \in 1..rows |-> [j \in 1..cols |-> Num(r + j - 1)]]

ModelCalls ==
    UNION {
      {<<Filled(d[1], d[1], 1), Bm, Filled(d[3], d[1], 1), Dm, ym, yg, um, ug>> :
          Bm \in {Filled(d[1], d[2], 1), Counting(d[1], d[2])},
          Dm \in {Filled(d[3], d[2], 0), Counting(d[3], d[2])},
          ym \in [1..d[3] -> Offsets], yg \in [1..d[3] -> YGains],
          um \in [1..d[2] -> Offsets], ug \in [1..d[2] -> UGains]} :
      d \in Dims}

InitModel ==
    /\ pcM = "248"
    /\ heap \in ModelCalls
    /\ heap0 = heap
    /\ loc = CallerRefs
    /\ ret = <<>>
    /\ step = 0 /\ uIn = <<>> /\ xUn = <<>> /\ xSc = <<>>
    /\ yUn = <<>> /\ ySc = <<>>
    /\ ScaleIdle
    /\ ScoresIdle

simVars == <<step, uIn, xUn, xSc, yUn, ySc>>

\* line 248: B = B*ugain
UmScaleB ==
    /\ pcM = "248"
    /\ LET n == NewArray(heap, loc.B, MulLastAxis(heap[loc.B], heap[loc.ugain]))
       IN  /\ heap' = n.heap
           /\ loc' = [loc EXCEPT !.B = n.ref]
    /\ pcM' = "249"
    /\ UNCHANGED <<heap0, ret, simVars, scaleVars, scoreVars>>

\* line 249: C = (C.T/ygain).T
UmScaleC ==
    /\ pcM = "249"
    /\ LET n == NewArray(heap, loc.C,
                    Transpose(DivLastAxis(Transpose(heap[loc.C]), heap[loc.ygain])))
       IN  /\ heap' = n.heap
           /\ loc' = [loc EXCEPT !.C = n.ref]
    /\ pcM' = "250"
    /\ UNCHANGED <<heap0, ret, simVars, scaleVars, scoreVars>>

\* line 250: D = D*ugain
UmScaleDCols ==
    /\ pcM = "250"
    /\ LET n == NewArray(heap, loc.D, MulLastAxis(heap[loc.D], heap[loc.ugain]))
       IN  /\ heap' = n.heap
           /\ loc' = [loc EXCEPT !.D = n.ref]
    /\ pcM' = "251"
    /\ UNCHANGED <<heap0, ret, simVars, scaleVars, scoreVars>>

\* line 251: D = (D.T/ygain).T
UmScaleDRows ==
    /\ pcM = "251"
    /\ LET n == NewArray(heap, loc.D,
                    Transpose(DivLastAxis(Transpose(heap[loc.D]), heap[loc.ygain])))
       IN  /\ heap' = n.heap
           /\ loc' = [loc EXCEPT !.D = n.ref]
    /\ pcM' = "252"
    /\ UNCHANGED <<heap0, ret, simVars, scaleVars, scoreVars>>

\* line 252: return A, B, C, D, ymean, umean
UmReturn ==
    /\ pcM = "252"
    /\ ret' = [A |-> loc.A, B |-> loc.B, C |-> loc.C, D |-> loc.D,
               ymean |-> loc.ymean, umean |-> loc.umean]
    /\ pcM' = "returned"
    /\ UNCHANGED <<heap, heap0, loc, simVars, scaleVars, scoreVars>>

MatVec(M, v) ==
    [r \in 1..Len(M) |-> SumSeq([j \in 1..Len(v) |-> Mul(M[r][j], v[j])])]
VecAdd(a, b) == [j \in 1..Len(a) |-> Add(a[j], b[j])]
VecSub(a, b) == [j \in 1..Len(a) |-> Sub(a[j], b[j])]
VecMul(a, b) == [j \in 1..Len(a) |-> Mul(a[j], b[j])]
VecDiv(a, b) == [j \in 1..Len(a) |-> Div(a[j], b[j])]

\* the caller runs both models from the same initial state x0
SimStart ==
    /\ pcM = "returned"
    /\ \E x0 \in [1..Len(heap0[CallerRefs.A]) -> Signals] :
          xUn' = x0 /\ xSc' = x0
    /\ pcM' = "sim"
    /\ UNCHANGED <<heap, heap0, loc, ret, step, uIn, yUn, ySc,
                   scaleVars, scoreVars>>

\* one step of both models on the same input u(k) (lines 207-212):
\* the returned model on u(k) - umean; the scaled model, as it was passed,
\* on us(k) = (u(k) - umean)*ugain, its output unscaled by ys(k)/ygain + ymean
SimStep ==
    /\ pcM = "sim"
    /\ step < MaxSteps
    /\ \E uk \in [1..Len(heap0[CallerRefs.ugain]) -> Signals] :
          LET du == VecSub(uk, heap[ret.umean])
              us == VecMul(VecSub(uk, heap0[CallerRefs.umean]),
                           heap0[CallerRefs.ugain])
              ys == VecAdd(MatVec(heap0[CallerRefs.C], xSc),
                           MatVec(heap0[CallerRefs.D], us))
          IN  /\ uIn' = uk
              /\ yUn' = VecAdd(VecAdd(MatVec(heap[ret.C], xUn),
                                      MatVec(heap[ret.D], du)),
                               heap[ret.ymean])
              /\ xUn' = VecAdd(MatVec(heap[ret.A], xUn), MatVec(heap[ret.B], du))
              /\ ySc' = VecAdd(VecDiv(ys, heap0[CallerRefs.ygain]),
                               heap0[CallerRefs.ymean])
              /\ xSc' = VecAdd(MatVec(heap0[CallerRefs.A], xSc),
                               MatVec(heap0[CallerRefs.B], us))
    /\ step' = step + 1
    /\ UNCHANGED <<pcM, heap, heap0, loc, ret, scaleVars, scoreVars>>

NextModel ==
    \/ UmScaleB \/ UmScaleC \/ UmScaleDCols \/ UmScaleDRows \/ UmReturn
    \/ SimStart \/ SimStep

SpecModel == InitModel /\ [][NextModel]_vars

(***************************************************************************)
(* Properties of unscale_model                                             *)
(***************************************************************************)
AllEqual(v, c) == \A j \in 1..Len(v) : v[j] = c
NoneEqual(v, c) == \A j \in 1..Len(v) : v[j] # c
ModelReturned == pcM \in {"returned", "sim"}

\* C5: for nonzero ygain, every x0 and every input sequence, the returned
\* model fed u(k) - umean has at every step the same state and the same
\* output as the scaled model fed (u(k) - umean)*ugain with its output
\* unscaled by ys(k)/ygain + ymean.
C5_Equivalent ==
    (pcM = "sim" /\ NoneEqual(heap0[CallerRefs.ygain], Zero)) =>
        xUn = xSc /\ yUn = ySc

\* two inputs with different gains, an output gain other than 1, a nonzero
\* offset, and two steps taken with a nonzero output
C5_Witness ==
    /\ pcM = "sim" /\ step >= 2
    /\ heap0[CallerRefs.ugain] = <<Num(2), Num(1)>>
    /\ heap0[CallerRefs.ygain] = <<Num(2)>>
    /\ heap0[CallerRefs.umean] = <<Num(1), Num(0)>>
    /\ heap0[CallerRefs.D] = Counting(1, 2)
    /\ uIn = <<Num(0), Num(1)>>
    /\ xUn = xSc /\ yUn = ySc
    /\ NoneEqual(xUn, Zero) /\ NoneEqual(yUn, Zero)

\* C6: A, ymean and umean are returned as they were passed, whatever the
\* gains; with all-ones ugain and ygain the returned B, C and D equal the
\* ones passed; no array of the caller is modified in place.
C6_Frame ==
    /\ pcM # "idle" =>
          \A id \in 1..Len(heap0) : heap[id] = heap0[id]
    /\ ModelReturned =>
          /\ ret.A = CallerRefs.A /\ heap[ret.A] = heap0[CallerRefs.A]
          /\ ret.ymean = CallerRefs.ymean
          /\ heap[ret.ymean] = heap0[CallerRefs.ymean]
          /\ ret.umean = CallerRefs.umean
          /\ heap[ret.umean] = heap0[CallerRefs.umean]
          /\ (AllEqual(heap0[CallerRefs.ugain], One)
                /\ AllEqual(heap0[CallerRefs.ygain], One)) =>
                /\ heap[ret.B] = heap0[CallerRefs.B]
                /\ heap[ret.C] = heap0[CallerRefs.C]
                /\ heap[ret.D] = heap0[CallerRefs.D]

\* a call with all-ones gains has returned new arrays equal to B, C and D
C6_Witness ==
    /\ pcM = "returned"
    /\ heap0[CallerRefs.ugain] = <<One, One>>
    /\ heap0[CallerRefs.ygain] = <<One>>
    /\ heap0[CallerRefs.B] = Counting(1, 2)
    /\ ret.A = CallerRefs.A
    /\ ret.B # CallerRefs.B /\ heap[ret.B] = heap0[CallerRefs.B]
    /\ heap[ret.D] = heap0[CallerRefs.D]
    /\ heap[CallerRefs.B] = heap0[CallerRefs.B]

====
